---- MODULE Spec2Model ----
(***************************************************************************)
(* Model of scripts/get_cloudflare_ips.py: the range fetch, the range      *)
(* expansion loops, the concurrent latency ranking (get_best_ips over a    *)
(* ThreadPoolExecutor) and the result writer, driven by main().            *)
(***************************************************************************)
EXTENDS Bags, FiniteSets, Integers, Sequences, TLC

(* ------------------------------ bounds --------------------------------- *)
\* width of an address in bits (32 and 128 in the program, scaled down)
AddrBits == 2
\* longest response body (in lines) of the small range fetches
MaxRanges == 3
\* largest finite latency a probe measures, in ms
MaxLatency == 1
\* longest candidate list handed to get_best_ips by the ranking harness
MaxLen == 3
\* number of distinct candidates the ranking harness draws from
NumIps == 3
\* how many candidates a burst has beyond the worker pool's size
BurstExtra == 1

(* --------------------------- program constants ------------------------- *)
\* ThreadPoolExecutor(max_workers=40)
max_workers == 40
\* get_best_ips(..., num_ips=10) as called by main
MAIN_NUM_IPS == 10

Families == {"v4", "v6"}
Runs == {1, 2}
RunOf(f) == IF f = "v4" THEN 1 ELSE 2

Pow2(n) == 2 ^ n
MaxAddr == Pow2(AddrBits) - 1
Min(a, b) == IF a <= b THEN a ELSE b

\* float('inf'): greater than every measured latency
Inf == MaxLatency + 1
Latencies == 0 .. MaxLatency

\* a candidate address string: its family and its numeric value
IpsOf(f) == {[fam |-> f, addr |-> a] : a \in 0 .. MaxAddr}
AllIps == IpsOf("v4") \cup IpsOf("v6")

(* ------------------------------ the network ---------------------------- *)
\* what requests.get(test_url, ...) followed by raise_for_status can do
FailureKinds ==
  {"unreachable", "refused", "timeout", "ssl_error", "bad_status", "other_exception"}
OkEvents == {[kind |-> "ok", ms |-> l] : l \in Latencies}
FailEvents == {[kind |-> k, ms |-> l] : k \in FailureKinds, l \in {0}}
Events == OkEvents \cup FailEvents

\* exceptions that are subclasses of requests.exceptions.RequestException
RequestExceptionKinds == {"unreachable", "refused", "timeout", "ssl_error", "bad_status"}

\* mutant: the status check is missing, a 4xx/5xx answer is timed like a success
test_ip_http_latency_NoStatusCheck(ev) ==
  IF ev.kind \in {"ok", "bad_status"} THEN [raised |-> FALSE, value |-> ev.ms]
  ELSE [raised |-> FALSE, value |-> Inf]

\* the outcome of one probe: a returned value, or an exception leaving the function
test_ip_http_latency(ev) ==
  IF ev.kind = "ok" THEN [raised |-> FALSE, value |-> ev.ms]
  ELSE IF ev.kind \in RequestExceptionKinds THEN [raised |-> FALSE, value |-> Inf]
  ELSE [raised |-> FALSE, value |-> Inf]

(* ------------------------- sorting and slicing ------------------------- *)
\* list.sort(key=lambda x: x[0]) is stable: x goes after every element whose
\* key is not greater
RECURSIVE InsertByLatency(_, _)
InsertByLatency(s, x) ==
  IF s = <<>> THEN <<x>>
  ELSE IF x[1] < s[1][1] THEN <<x>> \o s
  ELSE <<s[1]>> \o InsertByLatency(Tail(s), x)

RECURSIVE StableSort(_)
StableSort(s) ==
  IF s = <<>> THEN <<>>
  ELSE InsertByLatency(StableSort(SubSeq(s, 1, Len(s) - 1)), s[Len(s)])

\* mutant: the list is left in collection order
SortByLatency_NoSort(s) == s

SortByLatency(s) == StableSort(s)

\* mutant: the slice keeps one element too many
Slice_OffByOne(s, n) == SubSeq(s, 1, Min(n + 1, Len(s)))

\* s[:n] for n >= 0
Slice(s, n) == SubSeq(s, 1, Min(n, Len(s)))

IpsOfPairs(s) == [k \in 1 .. Len(s) |-> s[k][2]]

(* --------------------------- range fetch ------------------------------- *)
\* a line of a response body: text that is no network at all, or "addr/plen"
\* (plen = -1: no "/plen" suffix); host bits may be set and plen may be too large
Garbage == [kind |-> "garbage", fam |-> "none", addr |-> 0, plen |-> 0]
CidrLine(f, a, p) == [kind |-> "cidr", fam |-> f, addr |-> a, plen |-> p]

\* what requests.get(url, timeout=10) followed by raise_for_status can do
FetchFailures == {"conn_error", "timeout", "bad_status"}
FetchFailed(k) == [kind |-> k, lines |-> <<>>]
FetchOk(ls) == [kind |-> "ok", lines |-> ls]

get_cloudflare_ips(resp) ==
  IF resp.kind = "ok" THEN [raised |-> FALSE, value |-> resp.lines]
  ELSE [raised |-> FALSE, value |-> <<>>]

(* --------------------------- range expansion --------------------------- *)
\* ipaddress.ip_network(line, strict=False): ValueError, or the network with
\* the host bits of the address cleared
ip_network(line) ==
  IF line.kind # "cidr" \/ line.plen > AddrBits
  THEN [error |-> TRUE, fam |-> "none", network_address |-> 0, prefixlen |-> 0]
  ELSE LET p == IF line.plen < 0 THEN AddrBits ELSE line.plen
           block == Pow2(AddrBits - p)
       IN [error |-> FALSE, fam |-> line.fam,
           network_address |-> (line.addr \div block) * block, prefixlen |-> p]

NumAddresses(network) == Pow2(AddrBits - network.prefixlen)

\* ipv4_addresses.append(str(network.network_address))
SelectIPv4(network) == [fam |-> network.fam, addr |-> network.network_address]

\* mutant: the first host after the network address, unless the block is one address
SelectIPv6_PlusOne(network) ==
  [fam |-> network.fam,
   addr |-> IF NumAddresses(network) > 1 THEN network.network_address + 1
            ELSE network.network_address]

\* ipv6_addresses.append(str(network.network_address))
SelectIPv6(network) == [fam |-> network.fam, addr |-> network.network_address]

Select(f, network) == IF f = "v4" THEN SelectIPv4(network) ELSE SelectIPv6(network)

\* mutant: the loop ends at the first line that does not parse
RECURSIVE ExpandRanges_Break(_, _)
ExpandRanges_Break(f, rs) ==
  IF rs = <<>> THEN <<>>
  ELSE LET network == ip_network(rs[1])
       IN IF network.error THEN <<>>
          ELSE <<Select(f, network)>> \o ExpandRanges_Break(f, Tail(rs))

\* the for loop over the fetched lines of family f
RECURSIVE ExpandLoop(_, _)
ExpandLoop(f, rs) ==
  IF rs = <<>> THEN <<>>
  ELSE LET network == ip_network(rs[1])
       IN IF network.error THEN ExpandLoop(f, Tail(rs))
          ELSE <<Select(f, network)>> \o ExpandLoop(f, Tail(rs))

ExpandRanges(f, rs) == ExpandLoop(f, rs)

(* ----------------------------- result writer --------------------------- *)
Absent == [exists |-> FALSE, lines |-> <<>>]
File(ls) == [exists |-> TRUE, lines |-> ls]

OpenErrors == {"permission_denied", "no_such_directory"}
IOErrors == OpenErrors \cup {"disk_full"}
IOOutcomes == {"ok"} \cup IOErrors
NoReport == [status |-> "none", count |-> 0, errno |-> "none"]

\* a full disk fails a write, so only when there is a line to write
Succeeds(ips, io) == io = "ok" \/ (io = "disk_full" /\ ips = <<>>)

\* mutant: the IOError is not caught
write_ips_to_file_Uncaught(file, ips, io, written) ==
  IF Succeeds(ips, io)
  THEN [file |-> File(ips), raised |-> FALSE,
        report |-> [status |-> "success", count |-> Len(ips), errno |-> "none"]]
  ELSE [file |-> IF io \in OpenErrors THEN file ELSE File(SubSeq(ips, 1, written)),
        raised |-> TRUE, report |-> NoReport]

\* mutant: nothing is written for an empty list
write_ips_to_file_SkipEmpty(file, ips, io, written) ==
  IF ips = <<>> THEN [file |-> file, raised |-> FALSE, report |-> NoReport]
  ELSE IF io = "ok"
  THEN [file |-> File(ips), raised |-> FALSE,
        report |-> [status |-> "success", count |-> Len(ips), errno |-> "none"]]
  ELSE [file |-> IF io \in OpenErrors THEN file ELSE File(SubSeq(ips, 1, written)),
        raised |-> FALSE,
        report |-> [status |-> "error", count |-> 0, errno |-> io]]

\* open(filename, 'w') truncates or creates the file, or fails and leaves it
\* alone; a write that fails leaves the first `written` lines; every IOError is
\* caught and printed
write_ips_to_file(file, ips, io, written) ==
  IF Succeeds(ips, io)
  THEN [file |-> File(ips), raised |-> FALSE,
        report |-> [status |-> "success", count |-> Len(ips), errno |-> "none"]]
  ELSE [file |-> IF io \in OpenErrors THEN file ELSE File(SubSeq(ips, 1, written)),
        raised |-> FALSE,
        report |-> [status |-> "error", count |-> 0, errno |-> io]]

(* -------------------------------- state -------------------------------- *)
VARIABLES
  pc,         \* position of main (or of the ranking harness)
  web,        \* per family, how the range URL behaves (see Responses)
  net,        \* per candidate, the events a probe of it may meet
  disk,       \* per family, what writing its output file may meet
  ranges,     \* ipv4_ranges / ipv6_ranges
  addresses,  \* ipv4_addresses / ipv6_addresses
  best,       \* best_ipv4s / best_ipv6s
  files,      \* cfipv4.txt / cfipv6.txt
  report,     \* what write_ips_to_file printed for each file
  phase,      \* per get_best_ips call: "idle", "pool", "sort", "returned"
  ip_list,    \* per call, the argument ip_list
  num_ips,    \* per call, the argument num_ips
  submitted,  \* per call, how many executor.submit calls were made
  started,    \* per call, how many work items a worker has taken off the queue
  running,    \* per call, the bag of candidates being probed
  finished,   \* per call, the bag of completed futures not yet yielded
  yielded,    \* per call, how many futures as_completed has yielded
  probed,     \* per call, the bag of candidates test_ip_http_latency was run on
  best_ips,   \* per call, the local list of (latency, ip)
  ret         \* per call, the returned list

mainVars == <<ranges, addresses, best, files, report>>
envVars == <<web, net, disk>>
argVars == <<ip_list, num_ips>>
poolVars == <<submitted, started, running, finished, yielded, probed, best_ips>>
vars == <<pc, web, net, disk, ranges, addresses, best, files, report, phase, ip_list,
          num_ips, submitted, started, running, finished, yielded, probed,
          best_ips, ret>>

One(x) == SetToBag({x})
InFlight(r) == BagCardinality(running[r])

(* ---------------------------- get_best_ips ----------------------------- *)
\* entering the function: best_ips = [] and a fresh executor
Enter(r, list, n) ==
  /\ phase[r] = "idle"
  /\ phase' = [phase EXCEPT ![r] = "pool"]
  /\ ip_list' = [ip_list EXCEPT ![r] = list]
  /\ num_ips' = [num_ips EXCEPT ![r] = n]
  /\ submitted' = [submitted EXCEPT ![r] = 0]
  /\ started' = [started EXCEPT ![r] = 0]
  /\ running' = [running EXCEPT ![r] = EmptyBag]
  /\ finished' = [finished EXCEPT ![r] = EmptyBag]
  /\ yielded' = [yielded EXCEPT ![r] = 0]
  /\ probed' = [probed EXCEPT ![r] = EmptyBag]
  /\ best_ips' = [best_ips EXCEPT ![r] = <<>>]
  /\ UNCHANGED ret

\* one executor.submit of the dict comprehension, in list order
Submit(r) ==
  /\ phase[r] = "pool"
  /\ submitted[r] < Len(ip_list[r])
  /\ submitted' = [submitted EXCEPT ![r] = @ + 1]
  /\ UNCHANGED <<pc, envVars, mainVars, phase, argVars, started, running,
                 finished, yielded, probed, best_ips, ret>>

\* mutant: a thread per task
WorkerAvailable_Unbounded(r) == TRUE

\* the pool has at most max_workers threads, each runs one work item at a time
WorkerAvailable(r) == InFlight(r) < max_workers

\* a worker thread takes the oldest work item off the queue and calls
\* test_ip_http_latency on it
StartProbe(r) ==
  /\ phase[r] = "pool"
  /\ started[r] < submitted[r]
  /\ WorkerAvailable(r)
  /\ LET ip == ip_list[r][started[r] + 1]
     IN /\ running' = [running EXCEPT ![r] = @ (+) One(ip)]
        /\ probed' = [probed EXCEPT ![r] = @ (+) One(ip)]
  /\ started' = [started EXCEPT ![r] = @ + 1]
  /\ UNCHANGED <<pc, envVars, mainVars, phase, argVars, submitted, finished,
                 yielded, best_ips, ret>>

\* a probe ends: the future holds what test_ip_http_latency returned or raised
FinishProbe(r) ==
  /\ phase[r] = "pool"
  /\ \E ip \in BagToSet(running[r]) : \E ev \in net[ip] :
       LET out == test_ip_http_latency(ev)
       IN /\ running' = [running EXCEPT ![r] = @ (-) One(ip)]
          /\ finished' = [finished EXCEPT ![r] =
                @ (+) One([ip |-> ip, raised |-> out.raised, value |-> out.value])]
  /\ UNCHANGED <<pc, envVars, mainVars, phase, argVars, submitted, started,
                 yielded, probed, best_ips, ret>>

\* the body of the as_completed loop for a future fut
Collected(list, fut) ==
  IF fut.raised THEN list
  ELSE IF fut.value # Inf THEN Append(list, <<fut.value, fut.ip>>)
  ELSE list

\* one iteration of the as_completed loop, which starts once every candidate
\* is submitted and yields completed futures
Collect(r) ==
  /\ phase[r] = "pool"
  /\ submitted[r] = Len(ip_list[r])
  /\ \E fut \in BagToSet(finished[r]) :
       /\ finished' = [finished EXCEPT ![r] = @ (-) One(fut)]
       /\ best_ips' = [best_ips EXCEPT ![r] = Collected(@, fut)]
  /\ yielded' = [yielded EXCEPT ![r] = @ + 1]
  /\ UNCHANGED <<pc, envVars, mainVars, phase, argVars, submitted, started,
                 running, probed, ret>>

\* mutant: the loop is left after the first completed future
LoopDone_FirstCompleted(r) == submitted[r] = Len(ip_list[r]) /\ yielded[r] >= Min(1, Len(ip_list[r]))

\* as_completed is exhausted when it has yielded every future of future_to_ip
LoopDone(r) == submitted[r] = Len(ip_list[r]) /\ yielded[r] = Len(ip_list[r])

\* the loop ends and the with block is left (executor.shutdown(wait=True))
LeavePool(r) ==
  /\ phase[r] = "pool"
  /\ LoopDone(r)
  /\ phase' = [phase EXCEPT ![r] = "sort"]
  /\ UNCHANGED <<pc, envVars, mainVars, argVars, poolVars, ret>>

\* best_ips.sort(key=lambda x: x[0]); return [ip for latency, ip in best_ips[:num_ips]]
SortAndReturn(r) ==
  /\ phase[r] = "sort"
  /\ LET sorted == SortByLatency(best_ips[r])
     IN /\ best_ips' = [best_ips EXCEPT ![r] = sorted]
        /\ ret' = [ret EXCEPT ![r] = IpsOfPairs(Slice(sorted, num_ips[r]))]
  /\ phase' = [phase EXCEPT ![r] = "returned"]
  /\ UNCHANGED <<pc, envVars, mainVars, argVars, submitted, started, running,
                 finished, yielded, probed>>

(* --------------------------- the range URLs ---------------------------- *)
RECURSIVE SeqsOfLen(_, _)
SeqsOfLen(S, n) ==
  IF n = 0 THEN {<<>>}
  ELSE {Append(q, x) : q \in SeqsOfLen(S, n - 1), x \in S}
SeqsUpTo(S, n) == UNION {SeqsOfLen(S, k) : k \in 0 .. n}
Copies(x, n) == [k \in 1 .. n |-> x]

\* the lines a range URL is taken to serve: text that is no network, a prefix
\* length that is too large, a single address, a block given by one of its
\* host addresses
RangeLines(f) ==
  {Garbage, CidrLine(f, 1, AddrBits + 1), CidrLine(f, MaxAddr, -1),
   CidrLine(f, MaxAddr, AddrBits - 1)}

SmallResponses(f) ==
  {FetchFailed(k) : k \in FetchFailures}
    \cup {FetchOk(ls) : ls \in SeqsUpTo(RangeLines(f), MaxRanges)}

\* a fetch that fails, or serves one block
BasicResponses(f) ==
  {FetchFailed(k) : k \in FetchFailures}
    \cup {FetchOk(<<CidrLine(f, MaxAddr, AddrBits - 1)>>)}

BurstLen == max_workers + BurstExtra
BurstResponse(f) == FetchOk(Copies(CidrLine(f, MaxAddr, AddrBits - 1), BurstLen))

\* the responses a range URL may give, by the way it behaves
Responses(mode, f) ==
  CASE mode = "small" -> SmallResponses(f)
    [] mode = "basic" -> BasicResponses(f)
    [] mode = "burst" -> {BurstResponse(f)}
    [] OTHER -> {}

(* -------------------------------- main --------------------------------- *)
Pc(step, f) == <<step, f>>

\* ipv4_ranges = get_cloudflare_ips(IPV4_URL), and the same for IPv6
Fetch(f) ==
  /\ pc = Pc("fetch", f)
  /\ \E resp \in Responses(web[f], f) :
       LET got == get_cloudflare_ips(resp)
       IN IF got.raised
          THEN pc' = Pc("crashed", f) /\ UNCHANGED ranges
          ELSE pc' = Pc("expand", f) /\ ranges' = [ranges EXCEPT ![f] = got.value]
  /\ UNCHANGED <<envVars, addresses, best, files, report, phase, argVars,
                 poolVars, ret>>

\* the loop that fills ipv4_addresses / ipv6_addresses
Expand(f) ==
  /\ pc = Pc("expand", f)
  /\ addresses' = [addresses EXCEPT ![f] = ExpandRanges(f, ranges[f])]
  /\ pc' = IF f = "v4" THEN Pc("fetch", "v6") ELSE Pc("rank", "v4")
  /\ UNCHANGED <<envVars, ranges, best, files, report, phase, argVars,
                 poolVars, ret>>

\* best_ipv4s = get_best_ips(ipv4_addresses, num_ips=10): the call
CallRank(f) ==
  /\ pc = Pc("rank", f)
  /\ Enter(RunOf(f), addresses[f], MAIN_NUM_IPS)
  /\ UNCHANGED <<pc, envVars, mainVars>>

\* ... and its return
ReturnRank(f) ==
  /\ pc = Pc("rank", f)
  /\ phase[RunOf(f)] = "returned"
  /\ best' = [best EXCEPT ![f] = ret[RunOf(f)]]
  /\ pc' = Pc("write", f)
  /\ UNCHANGED <<envVars, ranges, addresses, files, report, phase, argVars,
                 poolVars, ret>>

\* write_ips_to_file("cfipv4.txt", best_ipv4s), and the same for IPv6
Write(f) ==
  /\ pc = Pc("write", f)
  /\ \E io \in disk[f] :
     \E written \in (IF io = "disk_full" /\ best[f] # <<>>
                     THEN 0 .. Len(best[f]) - 1 ELSE {0}) :
       LET w == write_ips_to_file(files[f], best[f], io, written)
       IN /\ files' = [files EXCEPT ![f] = w.file]
          /\ report' = [report EXCEPT ![f] = w.report]
          /\ pc' = IF w.raised THEN Pc("crashed", f)
                   ELSE IF f = "v4" THEN Pc("rank", "v6") ELSE Pc("done", "v6")
  /\ UNCHANGED <<envVars, ranges, addresses, best, phase, argVars, poolVars, ret>>

(* --------------------------- ranking harness --------------------------- *)
\* get_best_ips(ip_list, num_ips) called twice in a row on the same arguments
Call(r) ==
  /\ pc = Pc("call", r)
  /\ Enter(r, ip_list[r], num_ips[r])
  /\ UNCHANGED <<pc, envVars, mainVars>>

Return(r) ==
  /\ pc = Pc("call", r)
  /\ phase[r] = "returned"
  /\ pc' = IF r = 1 THEN Pc("call", 2) ELSE Pc("done", 2)
  /\ UNCHANGED <<envVars, mainVars, phase, argVars, poolVars, ret>>

(* ----------------------------- initial states -------------------------- *)
StaleFile == File(<<[fam |-> "v4", addr |-> 0]>>)

IdleInit ==
  /\ ranges = [f \in Families |-> <<>>]
  /\ addresses = [f \in Families |-> <<>>]
  /\ best = [f \in Families |-> <<>>]
  /\ report = [f \in Families |-> NoReport]
  /\ phase = [r \in Runs |-> "idle"]
  /\ submitted = [r \in Runs |-> 0]
  /\ started = [r \in Runs |-> 0]
  /\ running = [r \in Runs |-> EmptyBag]
  /\ finished = [r \in Runs |-> EmptyBag]
  /\ yielded = [r \in Runs |-> 0]
  /\ probed = [r \in Runs |-> EmptyBag]
  /\ best_ips = [r \in Runs |-> <<>>]
  /\ ret = [r \in Runs |-> <<>>]

\* a latency map: every candidate answers with one fixed latency or is down
\* (and then fails in any of the ways a probe can fail)
LatencyMaps(ips) == [ips -> {{e} : e \in OkEvents} \cup {FailEvents}]
Anywhere(m) == [ip \in AllIps |-> IF ip \in DOMAIN m THEN m[ip] ELSE Events]

\* main started on a network where every candidate behaves alike and a file
\* system that may fail; one family's URL serves any short body, the other's
\* fails or serves one block
Init ==
  /\ IdleInit
  /\ pc = Pc("fetch", "v4")
  /\ \E old \in {Absent, StaleFile} : files = [f \in Families |-> old]
  /\ \E E \in {{e} : e \in OkEvents} \cup {FailEvents} : net = [ip \in AllIps |-> E]
  /\ \E any \in Families :
       web = [f \in Families |-> IF f = any THEN "small" ELSE "basic"]
  /\ disk = [f \in Families |-> IOOutcomes]
  /\ ip_list = [r \in Runs |-> <<>>]
  /\ num_ips = [r \in Runs |-> 0]

PoolStep(r) ==
  \/ Submit(r)
  \/ StartProbe(r)
  \/ FinishProbe(r)
  \/ Collect(r)
  \/ LeavePool(r)
  \/ SortAndReturn(r)

Next ==
  \/ \E f \in Families : Fetch(f)
  \/ \E f \in Families : Expand(f)
  \/ \E f \in Families : CallRank(f)
  \/ \E f \in Families : ReturnRank(f)
  \/ \E f \in Families : Write(f)
  \/ \E r \in Runs : PoolStep(r)

Spec == Init /\ [][Next]_vars

\* every probe ends (requests.get has a timeout) and every thread gets to run
FairSpec == Spec /\ WF_vars(Next)

\* main started with a burst of ranges larger than the worker pool, on a
\* network where every candidate answers and a file system that works
BurstInit ==
  /\ IdleInit
  /\ pc = Pc("fetch", "v4")
  /\ files = [f \in Families |-> Absent]
  /\ net = [ip \in AllIps |-> {[kind |-> "ok", ms |-> 0]}]
  /\ web = [f \in Families |-> "burst"]
  /\ disk = [f \in Families |-> {"ok"}]
  /\ ip_list = [r \in Runs |-> <<>>]
  /\ num_ips = [r \in Runs |-> 0]

BurstSpec == BurstInit /\ [][Next]_vars

\* the harness started on a candidate list, a count and a latency map
RankIps == {[fam |-> "v4", addr |-> a] : a \in 0 .. NumIps - 1}

RankInit ==
  /\ IdleInit
  /\ pc = Pc("call", 1)
  /\ files = [f \in Families |-> Absent]
  /\ web = [f \in Families |-> "unused"]
  /\ disk = [f \in Families |-> {}]
  /\ \E m \in LatencyMaps(RankIps) : net = Anywhere(m)
  /\ \E list \in SeqsUpTo(RankIps, MaxLen) : ip_list = [r \in Runs |-> list]
  /\ \E n \in 0 .. MaxLen : num_ips = [r \in Runs |-> n]

RankNext ==
  \/ \E r \in Runs : Call(r)
  \/ \E r \in Runs : Return(r)
  \/ \E r \in Runs : PoolStep(r)

RankSpec == RankInit /\ [][RankNext]_vars

(* ------------------------------ vocabulary ----------------------------- *)
StepNo(p) ==
  CASE p = Pc("fetch", "v4") -> 1 [] p = Pc("expand", "v4") -> 2
    [] p = Pc("fetch", "v6") -> 3 [] p = Pc("expand", "v6") -> 4
    [] p = Pc("rank", "v4") -> 5 [] p = Pc("write", "v4") -> 6
    [] p = Pc("rank", "v6") -> 7 [] p = Pc("write", "v6") -> 8
    [] p = Pc("done", "v6") -> 9
    [] OTHER -> 0
Crashed == pc[1] = "crashed"
\* main has completed the given step for family f
Past(step, f) == StepNo(pc) > StepNo(Pc(step, f))

Count(seq, x) == Cardinality({i \in DOMAIN seq : seq[i] = x})
Elems(seq) == {seq[i] : i \in DOMAIN seq}
Up(ip) == net[ip] \subseteq OkEvents
Down(ip) == net[ip] \subseteq FailEvents
\* the latency of a candidate that a fixed latency map makes answer
LatOf(ip) == (CHOOSE e \in net[ip] : TRUE).ms
Successes(list) == {i \in DOMAIN list : Up(list[i])}
Returned(r) == phase[r] = "returned"

\* a line that is a network: "addr/plen" with plen within the address width
IsNetwork(line) == line.kind = "cidr" /\ line.plen <= AddrBits
Networks(rs) == SelectSeq(rs, IsNetwork)
PrefixOf(line) == IF line.plen < 0 THEN AddrBits ELSE line.plen
BlockSize(line) == Pow2(AddrBits - PrefixOf(line))
\* the lowest address of the block the line denotes
BlockBase(line) == line.addr - (line.addr % BlockSize(line))

(* -------------------------------- claims ------------------------------- *)
\* C1: the list get_best_ips returns has at most num_ips entries, is sorted
\* non-decreasing by the latency measured for its entries, and holds no
\* candidate whose probe came back unreachable.
C1_RankedBoundedSortedReachable ==
  \A r \in Runs : Returned(r) =>
    /\ Len(ret[r]) <= num_ips[r]
    /\ Len(ret[r]) <= Len(best_ips[r])
    /\ \A k \in DOMAIN ret[r] :
         /\ ret[r][k] = best_ips[r][k][2]
         /\ best_ips[r][k][1] # Inf
         /\ Up(ret[r][k])
         /\ best_ips[r][k][1] = LatOf(ret[r][k])
         /\ \A j \in 1 .. k - 1 : LatOf(ret[r][j]) <= LatOf(ret[r][k])

C1_Witness ==
  \E r \in Runs :
    /\ Returned(r)
    /\ Len(ret[r]) >= 2
    /\ LatOf(ret[r][1]) < LatOf(ret[r][2])
    /\ ip_list[r][1] = ret[r][2]
    /\ \E i \in DOMAIN ip_list[r] : Down(ip_list[r][i])

\* C2: get_best_ips returns exactly min(num_ips, S) addresses, S being the
\* number of candidates whose probe succeeded; they are successes, and every
\* success left out is no faster than every address returned.
C2_LowestLatencySuccesses ==
  \A r \in Runs : Returned(r) =>
    /\ Len(ret[r]) = Min(num_ips[r], Cardinality(Successes(ip_list[r])))
    /\ \A ip \in Elems(ret[r]) :
         Up(ip) /\ Count(ret[r], ip) <= Count(ip_list[r], ip)
    /\ \A ip \in Elems(ip_list[r]) :
         (Up(ip) /\ Count(ret[r], ip) < Count(ip_list[r], ip)) =>
           \A k \in DOMAIN ret[r] : LatOf(ret[r][k]) <= LatOf(ip)

C2_Witness ==
  \E r \in Runs :
    /\ Returned(r)
    /\ num_ips[r] >= 1
    /\ Cardinality(Successes(ip_list[r])) > num_ips[r]
    /\ \E ip \in Elems(ip_list[r]) :
         Up(ip) /\ ip \notin Elems(ret[r]) /\ LatOf(ip) > LatOf(ret[r][1])

\* C4: two runs of get_best_ips over the same candidate list and the same
\* latency map return the same ordered list, whatever the completion orders.
C4_RerunSameOutput ==
  (Returned(1) /\ Returned(2)) => ret[1] = ret[2]

\* C5: every way a probe can fail makes test_ip_http_latency return the
\* unreachable value without raising; a candidate that is down is left out of
\* the ranked list whichever failure it met, and every other candidate of the
\* batch is still probed and ranked.
C5_FailuresUniformAndAbsorbed ==
  /\ \A e \in FailEvents :
       test_ip_http_latency(e) = [raised |-> FALSE, value |-> Inf]
  /\ \A r \in Runs :
       /\ \A fut \in BagToSet(finished[r]) :
            Down(fut.ip) => (~fut.raised /\ fut.value = Inf)
       /\ \A k \in DOMAIN best_ips[r] : ~Down(best_ips[r][k][2])
       /\ Returned(r) =>
            /\ \A ip \in Elems(ret[r]) : ~Down(ip)
            /\ \A ip \in Elems(ip_list[r]) :
                 /\ CopiesIn(ip, probed[r]) = Count(ip_list[r], ip)
                 /\ Up(ip) => Count(IpsOfPairs(best_ips[r]), ip) = Count(ip_list[r], ip)

C5_Witness ==
  \E r \in Runs :
    /\ Returned(r)
    /\ Len(ip_list[r]) >= 2
    /\ Down(ip_list[r][1])
    /\ Up(ip_list[r][2])
    /\ ip_list[r][2] \in Elems(ret[r])
    /\ ip_list[r][1] \notin Elems(ret[r])

\* C9: within a run every candidate is probed exactly once, never again after
\* a failure, and the list is sorted and truncated only when every submitted
\* probe has completed and been collected.
C9_ProbedOnceSortAfterAll ==
  \A r \in Runs :
    /\ \A ip \in AllIps : CopiesIn(ip, probed[r]) <= Count(ip_list[r], ip)
    /\ phase[r] \in {"sort", "returned"} =>
         /\ \A ip \in AllIps : CopiesIn(ip, probed[r]) = Count(ip_list[r], ip)
         /\ started[r] = Len(ip_list[r])
         /\ InFlight(r) = 0
         /\ BagCardinality(finished[r]) = 0
         /\ yielded[r] = Len(ip_list[r])
         /\ Len(best_ips[r]) = Cardinality(Successes(ip_list[r]))

C9_Witness ==
  \E r \in Runs :
    /\ Returned(r)
    /\ Len(ip_list[r]) >= 3
    /\ \E i \in DOMAIN ip_list[r] : Down(ip_list[r][i])
    /\ \E i \in DOMAIN ip_list[r] : Up(ip_list[r][i])

\* C10: a run never has more probes in flight than the pool has workers, and
\* the IPv4 run and the IPv6 run never have probes in flight together.
C10_PoolBound ==
  /\ \A r \in Runs : InFlight(r) <= max_workers
  /\ ~(InFlight(1) > 0 /\ InFlight(2) > 0)

C10_Witness ==
  /\ InFlight(2) = max_workers
  /\ started[2] < submitted[2]
  /\ Returned(1)
  /\ Len(ip_list[1]) > max_workers

\* C3 as stated: for an IPv6 range the selector picks network address + 1
\* when the range holds more than one address, and the network address itself
\* only for a single-address block.
C3_IPv6PlusOne ==
  Past("expand", "v6") =>
    LET nets == Networks(ranges["v6"])
    IN /\ Len(addresses["v6"]) = Len(nets)
       /\ \A k \in DOMAIN nets :
            addresses["v6"][k].addr =
              IF BlockSize(nets[k]) > 1 THEN BlockBase(nets[k]) + 1
              ELSE BlockBase(nets[k])

\* C3 amended: for an IPv6 range the selector picks the network address of
\* the range as the candidate, whatever the size of the range.
C3_IPv6NetworkAddress ==
  Past("expand", "v6") =>
    LET nets == Networks(ranges["v6"])
    IN /\ Len(addresses["v6"]) = Len(nets)
       /\ \A k \in DOMAIN nets :
            addresses["v6"][k] = [fam |-> "v6", addr |-> BlockBase(nets[k])]

C3_Witness ==
  /\ Past("expand", "v6")
  /\ \E k \in DOMAIN addresses["v6"] :
       LET line == Networks(ranges["v6"])[k]
       IN /\ BlockSize(line) > 1
          /\ line.addr # BlockBase(line)
          /\ addresses["v6"][k].addr = BlockBase(line)

\* C6: each fetched line contributes at most one candidate; a line that is no
\* network contributes none and does not end the loop, so the candidates are
\* those of the well-formed lines, one each, in input order.
C6_OneCandidatePerNetwork ==
  \A f \in Families : Past("expand", f) =>
    LET nets == Networks(ranges[f])
    IN /\ Len(addresses[f]) <= Len(ranges[f])
       /\ Len(addresses[f]) = Len(nets)
       /\ \A k \in DOMAIN nets :
            /\ addresses[f][k].fam = nets[k].fam
            /\ addresses[f][k].addr >= BlockBase(nets[k])
            /\ addresses[f][k].addr < BlockBase(nets[k]) + BlockSize(nets[k])

C6_Witness ==
  \E f \in Families :
    /\ Past("expand", f)
    /\ Len(ranges[f]) = 3
    /\ IsNetwork(ranges[f][1])
    /\ ~IsNetwork(ranges[f][2])
    /\ IsNetwork(ranges[f][3])
    /\ addresses[f] =
         <<[fam |-> f, addr |-> BlockBase(ranges[f][1])],
           [fam |-> f, addr |-> BlockBase(ranges[f][3])]>>

\* C7: a failed write of an output file is reported by write_ips_to_file and
\* does not raise: after a failed write of cfipv4.txt main is at the IPv6
\* ranking or beyond it, and when main ends the IPv6 list was ranked and its
\* write attempted.
C7_WriteFailureContained ==
  /\ ~Crashed
  /\ \A f \in Families :
       report[f].status = "error" =>
         /\ Past("write", f)
         /\ report[f].errno \in IOErrors
  /\ report["v4"].status = "error" =>
       /\ pc \in {Pc("rank", "v6"), Pc("write", "v6"), Pc("done", "v6")}
       /\ pc = Pc("done", "v6") =>
            (Returned(2) /\ best["v6"] = ret[2] /\ report["v6"].status # "none")

\* C7, as progress under FairSpec: a failed write of cfipv4.txt leads to the
\* write attempt for cfipv6.txt.
C7_FailedWriteLeadsToIPv6Write ==
  (report["v4"].status = "error") ~> (report["v6"].status # "none")

C7_Witness ==
  /\ pc = Pc("done", "v6")
  /\ report["v4"].status = "error"
  /\ report["v6"].status = "success"
  /\ best["v6"] # <<>>
  /\ files["v6"] = File(best["v6"])

\* C8: a family whose range list is empty, also because its fetch failed,
\* gets an empty ranked list and an output file of zero lines written without
\* error when the file system allows it, and the other family is processed.
C8_EmptyFamily ==
  /\ ~Crashed
  /\ \A f \in Families : ranges[f] = <<>> =>
       /\ Past("expand", f) => addresses[f] = <<>>
       /\ Past("rank", f) => (Returned(RunOf(f)) /\ best[f] = <<>>)
       /\ Past("write", f) =>
            /\ report[f].status \in {"success", "error"}
            /\ report[f].status = "success" =>
                 (files[f] = File(<<>>) /\ report[f].count = 0)
            /\ report[f].status = "error" => report[f].errno \in OpenErrors
  /\ pc = Pc("done", "v6") =>
       \A f \in Families : Returned(RunOf(f)) /\ report[f].status # "none"

C8_Witness ==
  /\ pc = Pc("done", "v6")
  /\ ranges["v4"] = <<>>
  /\ files["v4"] = File(<<>>)
  /\ report["v4"].status = "success"
  /\ best["v6"] # <<>>
  /\ report["v6"].status = "success"

====
